---- MODULE Spec2Model ----
(***************************************************************************)
(* The Suno MIDI client (class SunoMIDIUploader): upload_midi,             *)
(* generate_from_midi, get_generation_status, wait_for_completion and      *)
(* download_result, as a state machine of one client making one call.      *)
(* A call is split where it blocks: at each HTTP exchange (the             *)
(* request is sent in one step, the response is handled in the next), at   *)
(* each chunk of a streamed body and at time.sleep.  The wall clock and    *)
(* the remote job move on their own.                                       *)
(*                                                                         *)
(* Spec is one call of any method.  DownloadSpec is download_result with   *)
(* bodies around the chunk size, CallsSpec one call after another on one   *)
(* client, WaitFairSpec wait_for_completion with polls that are answered   *)
(* and a clock that advances, MainSpec the example flow of the __main__    *)
(* block, VideoSpec the function create_looped_video of makelongvideo.py.  *)
(*                                                                         *)
(* Python values: a str is a TLA+ string, None is the value None, a dict   *)
(* is a set of <<key, value>> pairs with distinct keys, an f-string is the *)
(* tuple of its parts (each part already converted by Str or ToString), a  *)
(* file path is the sequence of its characters.                            *)
(***************************************************************************)
EXTENDS Integers, Sequences, FiniteSets, TLC

VARIABLES
    api_key,        \* self.api_key
    base_url,       \* self.base_url
    headers,        \* self.headers
    pc,             \* where the current call stands
    op,             \* the public method that was called
    args,           \* its arguments
    sent,           \* the HTTP requests this call has sent, in order
    resps,          \* the HTTP responses this call has received, in order
    fileRead,       \* whether this call has opened and read the MIDI file
    outcome,        \* how the call ended: a return value or a raised exception
    now,            \* time.time()
    start_time,     \* wait_for_completion's local start_time
    wakeAt,         \* when the running time.sleep may return
    sleeps,         \* the time.sleep calls this call has made
    remote,         \* the status document the service holds for the job
    termAt,         \* the clock when the job became terminal, -1 before
    disk,           \* the content of each output path
    delivered,      \* the bytes of the body iter_content has yielded so far
    past,           \* the calls the __main__ block has finished, in order
    config,         \* makelongvideo.py: its duration settings
    image_files,    \* create_looped_video's local image_files
    video_clips,    \* its local video_clips
    current_time,   \* its local current_time
    img_index,      \* the position of its for loop in image_files
    vpc,            \* where create_looped_video stands
    video_file      \* what write_videofile has written

vars == <<api_key, base_url, headers, pc, op, args, sent, resps, fileRead,
          outcome, now, start_time, wakeAt, sleeps, remote, termAt, disk,
          delivered, past, config, image_files, video_clips, current_time,
          img_index, vpc, video_file>>

client == <<api_key, base_url, headers>>
waitLocals == <<start_time, wakeAt, sleeps>>
service == <<remote, termAt>>
video == <<config, image_files, video_clips, current_time, img_index, vpc,
           video_file>>

-----------------------------------------------------------------------------
(* Bounds of the model. *)

MaxTimeout == 2          \* largest timeout argument
MaxInterval == 2         \* largest poll_interval argument
MaxPolls == 3            \* polls followed within one wait_for_completion call
MaxImages == 3           \* most image files found in IMAGE_DIR

\* The clock starts at one of Epochs and is followed to MaxTime, one past the
\* largest deadline, and through any time.sleep that is running.
Epochs == {0, 1}
MaxTime == MaxTimeout + 2

-----------------------------------------------------------------------------
(* Python values. *)

None == "<None>"

\* str(v) inside an f-string
Str(v) == IF v = None THEN "None" ELSE v

\* bool(v) of an Optional[str] argument
Truthy(v) == v # None /\ v # ""

\* An Optional[list] argument: NoList is None, SomeList(l) the list l
NoList == [isNone |-> TRUE, items |-> <<>>]
SomeList(l) == [isNone |-> FALSE, items |-> l]

\* bool(v) of an Optional[list] argument
TruthyList(v) == ~v.isNone /\ v.items # <<>>

\* dict.get(key)
Get(d, key) == IF \E p \in d : p[1] = key
               THEN (CHOOSE p \in d : p[1] = key)[2]
               ELSE None

\* d[key] = value on a dict
Put(d, key, value) == {p \in d : p[1] # key} \cup {<<key, value>>}

\* json.dumps of a list of strings: one string, here its parts, as in
\* '["a", "b"]'
RECURSIVE JsonItems(_)
JsonItems(l) ==
    IF l = <<>> THEN <<>>
    ELSE IF Len(l) = 1 THEN <<"\"", l[1], "\"">>
    ELSE <<"\"", l[1], "\"", ", ">> \o JsonItems(Tail(l))

JsonDumps(list) == <<"[">> \o JsonItems(list.items) \o <<"]">>

-----------------------------------------------------------------------------
(* pathlib.Path: name, suffix; str.lower. *)

Upper == <<"A", "D", "I", "M">>
Lower == <<"a", "d", "i", "m">>

LowerChar(c) == IF \E i \in 1..Len(Upper) : Upper[i] = c
                THEN Lower[CHOOSE i \in 1..Len(Upper) : Upper[i] = c]
                ELSE c

StrLower(s) == [i \in 1..Len(s) |-> LowerChar(s[i])]

\* str.rfind(ch), 1-based, 0 when absent
RFind(s, ch) == IF \E i \in 1..Len(s) : s[i] = ch
                THEN CHOOSE i \in 1..Len(s) :
                        s[i] = ch /\ \A j \in (i + 1)..Len(s) : s[j] # ch
                ELSE 0

\* Path(p).name: the last component
PathName(p) == SubSeq(p, RFind(p, "/") + 1, Len(p))

\* Path(p).suffix: from the last dot of the name, unless the name starts or
\* ends with that dot
PathSuffix(p) ==
    LET name == PathName(p)
        i == RFind(name, ".")
    IN  IF 1 < i /\ i < Len(name) THEN SubSeq(name, i, Len(name)) ELSE <<>>

MidiSuffixes == {<<".", "m", "i", "d">>, <<".", "m", "i", "d", "i">>}

SuffixOkBroken(p) == PathSuffix(p) \in MidiSuffixes

\* midi_file.suffix.lower() in ['.mid', '.midi']
SuffixOk(p) == StrLower(PathSuffix(p)) \in MidiSuffixes

-----------------------------------------------------------------------------
(* The inputs the calls are made with. *)

ApiKeys == {"k1"}
BaseUrls == {"https://api.suno.ai/v1"}

Paths == {
    <<"a", ".", "m", "i", "d">>,
    <<"a", ".", "M", "I", "D">>,
    <<"a", ".", "M", "i", "d", "i">>,
    <<"a", ".", "m", "p", "3">>,
    <<"a">>,
    <<".", "m", "i", "d">>,
    <<"a", ".", "m", "i", "d", ".", "t">>,
    <<"d", ".", "m", "i", "d", "/", "a">>,
    <<"a", ".", "m", "i", "d", "x">> }

Titles == {None, "", "T"}
UploadStyles == {None, "rock"}
TagLists == {NoList, SomeList(<<>>), SomeList(<<"a", "b">>)}
Prompts == {None, "", "p"}
Styles == {"pop", "edm"}
Durations == {180, 30}
JobIds == {"j1", None}
Timeouts == -1..MaxTimeout
PollIntervals == 0..MaxInterval
ResultUrls == {"https://cdn/u1", "https://cdn/u2", None}
OutputPaths == {"output.mp3", "old.mp3"}

\* The bytes open(midi_file, 'rb').read() returns
FileBytes(p) == <<"bytes of", p>>

-----------------------------------------------------------------------------
(* The responses the service gives. *)

ErrCodes == {404, 201}
ErrBodies == {"", "boom"}

ErrResponses == {[status_code |-> c, text |-> b, json |-> {}, content |-> 0] :
                    c \in ErrCodes, b \in ErrBodies}

JsonResponse(doc) == [status_code |-> 200, text |-> "<json>", json |-> doc,
                      content |-> 0]

UploadDocs == {{<<"midi_id", "m1">>}, {<<"midi_id", "m2">>}, {}}
GenerateDocs == {{<<"job_id", "j1">>}, {}}

\* The status documents of a job; the first is the one a new job has.
Running == {<<"status", "running">>}
StatusDocs == {
    Running,
    {<<"status", "Completed">>, <<"audio_url", "https://cdn/u1">>},
    {<<"job_id", "j1">>},
    {<<"status", "completed">>, <<"audio_url", "https://cdn/u1">>},
    {<<"status", "failed">>, <<"error", "e1">>},
    {<<"status", "failed">>} }

Terminal(doc) == Get(doc, "status") \in {"completed", "failed"}

\* Bytes.  A response's content is the number of its body's bytes, and byte i
\* of the body is named by its position i.  A file's content is the sequence
\* of the runs written to it, <<source, first, last>> each; two runs of one
\* source that follow each other are one run.
Bodies == {0, 1, 3}
OldBytes == <<<<"old", 1, 1>>>>
NoFile == <<<<"no file", 0, 0>>>>

StatusResponses == ErrResponses \cup {JsonResponse(remote)}

BodyResponse(n) == [status_code |-> 200, text |-> "<bytes>", json |-> {},
                    content |-> n]

DownloadResponses == ErrResponses \cup {BodyResponse(n) : n \in Bodies}

-----------------------------------------------------------------------------
(* How a call ends. *)

NoOutcome == [kind |-> "none"]
Return(v) == [kind |-> "return", value |-> v]
ReturnNone == [kind |-> "returnNone"]
Raise(t, m) == [kind |-> "raise", type |-> t, msg |-> m]

-----------------------------------------------------------------------------
(* __init__ *)

\* the files that exist before the call: "old.mp3" does, "output.mp3" does not
InitDisk == [o \in OutputPaths |-> IF o = "old.mp3" THEN OldBytes ELSE NoFile]

\* create_looped_video is not running
NoVideo ==
    /\ config = [target |-> 0, image |-> 0]
    /\ image_files = <<>>
    /\ video_clips = <<>>
    /\ current_time = 0
    /\ img_index = 0
    /\ vpc = "off"
    /\ video_file = <<>>

Init ==
    /\ api_key \in ApiKeys
    /\ base_url \in BaseUrls
    /\ headers = {<<"Authorization", <<"Bearer ", api_key>>>>,
                  <<"Content-Type", "application/json">>}
    /\ pc = "idle"
    /\ op = "none"
    /\ args = [none |-> TRUE]
    /\ sent = <<>>
    /\ resps = <<>>
    /\ fileRead = FALSE
    /\ outcome = NoOutcome
    /\ now \in Epochs
    /\ start_time = 0
    /\ wakeAt = 0
    /\ sleeps = 0
    /\ remote = Running
    /\ termAt = -1
    /\ disk = InitDisk
    /\ delivered = 0
    /\ past = <<>>
    /\ NoVideo

-----------------------------------------------------------------------------
(* upload_midi *)

UploadDataPerTag(title, style, tags) ==
    LET d1 == IF Truthy(title) THEN Put({}, "title", title) ELSE {}
        d2 == IF Truthy(style) THEN Put(d1, "style", style) ELSE d1
    IN  d2 \cup {<<"tags", <<tags.items[i]>>>> : i \in 1..Len(tags.items)}

\* data = {} and the three "if x: data[..] = .." statements
UploadData(title, style, tags) ==
    LET d1 == IF Truthy(title) THEN Put({}, "title", title) ELSE {}
        d2 == IF Truthy(style) THEN Put(d1, "style", style) ELSE d1
    IN  IF TruthyList(tags) THEN Put(d2, "tags", JsonDumps(tags)) ELSE d2

\* upload_headers: a new dict with the Authorization entry only
UploadHeaders == {<<"Authorization", <<"Bearer ", api_key>>>>}

HeadersAfterUploadPopped == {p \in headers : p[1] # "Content-Type"}

\* self.headers once upload_headers is built: upload_midi does not assign it
HeadersAfterUpload == headers

\* the requests.post of upload_midi
UploadRequest(midi_path, title, style, tags) ==
    [method |-> "POST",
     url |-> <<base_url, "/uploads/midi">>,
     headers |-> UploadHeaders,
     files |-> {<<"midi_file",
                  <<PathName(midi_path), FileBytes(midi_path), "audio/midi">>>>},
     data |-> UploadData(title, style, tags),
     json |-> {},
     stream |-> FALSE]

UploadBeginSuffixFirst(midi_path, exists, title, style, tags) ==
    IF ~SuffixOk(midi_path)
    THEN /\ outcome' = Raise("ValueError",
                             <<"File must be a MIDI file (.mid or .midi)">>)
         /\ pc' = "done"
         /\ UNCHANGED <<sent, fileRead, headers>>
    ELSE IF ~exists
    THEN /\ outcome' = Raise("FileNotFoundError",
                             <<"MIDI file not found: ", midi_path>>)
         /\ pc' = "done"
         /\ UNCHANGED <<sent, fileRead, headers>>
    ELSE /\ fileRead' = TRUE
         /\ sent' = Append(sent, [method |-> "POST",
                url |-> <<base_url, "/uploads/midi">>,
                headers |-> {<<"Authorization", <<"Bearer ", api_key>>>>},
                files |-> {<<"midi_file",
                    <<PathName(midi_path), FileBytes(midi_path), "audio/midi">>>>},
                data |-> {}, json |-> {}, stream |-> FALSE])
         /\ headers' = HeadersAfterUpload
         /\ pc' = "upload_wait"
         /\ UNCHANGED outcome

\* upload_midi up to its requests.post: the two checks, the read, the request
UploadBegin(midi_path, exists, title, style, tags) ==
    IF ~exists
    THEN /\ outcome' = Raise("FileNotFoundError",
                             <<"MIDI file not found: ", midi_path>>)
         /\ pc' = "done"
         /\ UNCHANGED <<sent, fileRead, headers>>
    ELSE IF ~SuffixOk(midi_path)
    THEN /\ outcome' = Raise("ValueError",
                             <<"File must be a MIDI file (.mid or .midi)">>)
         /\ pc' = "done"
         /\ UNCHANGED <<sent, fileRead, headers>>
    ELSE /\ fileRead' = TRUE
         /\ sent' = Append(sent, UploadRequest(midi_path, title, style, tags))
         /\ headers' = HeadersAfterUpload
         /\ pc' = "upload_wait"
         /\ UNCHANGED outcome

CallUpload(midi_path, exists, title, style, tags) ==
    /\ pc = "idle"
    /\ op' = "upload_midi"
    /\ args' = [midi_path |-> midi_path, exists |-> exists, title |-> title,
                style |-> style, tags |-> tags]
    /\ UploadBegin(midi_path, exists, title, style, tags)
    /\ UNCHANGED <<api_key, base_url, past, video, delivered, resps, now,
                   waitLocals, service, disk>>

-----------------------------------------------------------------------------
(* generate_from_midi *)

GenerateRequestNoId(midi_id) ==
    [method |-> "POST",
     url |-> <<base_url, "/generate">>,
     headers |-> headers,
     files |-> {},
     data |-> {},
     json |-> {<<"midi_id", None>>, <<"style", args.style>>,
               <<"duration", args.duration>>},
     stream |-> FALSE]

GenerateRequestDropNull(midi_id) ==
    LET payload == {p \in {<<"midi_id", midi_id>>, <<"style", args.style>>} :
                        p[2] # None}
                   \cup {<<"duration", args.duration>>}
    IN  [method |-> "POST",
         url |-> <<base_url, "/generate">>,
         headers |-> headers,
         files |-> {},
         data |-> {},
         json |-> IF Truthy(args.prompt)
                  THEN Put(payload, "prompt", args.prompt)
                  ELSE payload,
         stream |-> FALSE]

\* payload = {...}; if prompt: payload["prompt"] = prompt; the requests.post
GenerateRequest(midi_id) ==
    LET payload == {<<"midi_id", midi_id>>, <<"style", args.style>>,
                    <<"duration", args.duration>>}
    IN  [method |-> "POST",
         url |-> <<base_url, "/generate">>,
         headers |-> headers,
         files |-> {},
         data |-> {},
         json |-> IF Truthy(args.prompt)
                  THEN Put(payload, "prompt", args.prompt)
                  ELSE payload,
         stream |-> FALSE]

CallGenerate(midi_path, exists, prompt, style, duration) ==
    /\ pc = "idle"
    /\ op' = "generate_from_midi"
    /\ args' = [midi_path |-> midi_path, exists |-> exists, prompt |-> prompt,
                style |-> style, duration |-> duration]
    /\ UploadBegin(midi_path, exists, None, None, NoList)
    /\ UNCHANGED <<api_key, base_url, past, video, delivered, resps, now,
                   waitLocals, service, disk>>

\* upload_midi from its response on, and what its caller does with the result
UploadResponse(r) ==
    /\ pc = "upload_wait"
    /\ resps' = Append(resps, r)
    /\ IF r.status_code # 200
       THEN /\ outcome' = Raise("Exception",
                    <<"Upload failed: ", ToString(r.status_code), " - ", r.text>>)
            /\ pc' = "done"
            /\ UNCHANGED sent
       ELSE IF op = "upload_midi"
       THEN /\ outcome' = Return(r.json)
            /\ pc' = "done"
            /\ UNCHANGED sent
       ELSE /\ sent' = Append(sent, GenerateRequest(Get(r.json, "midi_id")))
            /\ pc' = "generate_wait"
            /\ UNCHANGED outcome
    /\ UNCHANGED <<client, past, video, delivered, op, args, fileRead, now, waitLocals, service, disk>>

GenerateResponse(r) ==
    /\ pc = "generate_wait"
    /\ resps' = Append(resps, r)
    /\ outcome' = IF r.status_code # 200
                  THEN Raise("Exception",
                        <<"Generation failed: ", ToString(r.status_code), " - ", r.text>>)
                  ELSE Return(r.json)
    /\ pc' = "done"
    /\ UNCHANGED <<client, past, video, delivered, op, args, sent, fileRead, now, waitLocals, service, disk>>

-----------------------------------------------------------------------------
(* get_generation_status *)

\* the requests.get of get_generation_status
StatusRequest(job_id) ==
    [method |-> "GET",
     url |-> <<base_url, "/generations/", Str(job_id)>>,
     headers |-> headers,
     files |-> {},
     data |-> {},
     json |-> {},
     stream |-> FALSE]

StatusResultStatusOnly(r) ==
    IF r.status_code # 200
    THEN Raise("Exception",
               <<"Status check failed: ", ToString(r.status_code), " - ", r.text>>)
    ELSE Return({p \in r.json : p[1] = "status"})

StatusResultSwallow(r) ==
    IF r.status_code # 200 THEN Return({}) ELSE Return(r.json)

\* get_generation_status from its response on: what it raises or returns
StatusResult(r) ==
    IF r.status_code # 200
    THEN Raise("Exception",
               <<"Status check failed: ", ToString(r.status_code), " - ", r.text>>)
    ELSE Return(r.json)

CallStatus(job_id) ==
    /\ pc = "idle"
    /\ op' = "get_generation_status"
    /\ args' = [job_id |-> job_id]
    /\ sent' = Append(sent, StatusRequest(job_id))
    /\ pc' = "status_wait"
    /\ UNCHANGED <<client, past, video, delivered, resps, fileRead, outcome, now, waitLocals, service, disk>>

StatusResponse(r) ==
    /\ pc = "status_wait"
    /\ op = "get_generation_status"
    /\ resps' = Append(resps, r)
    /\ outcome' = StatusResult(r)
    /\ pc' = "done"
    /\ UNCHANGED <<client, past, video, delivered, op, args, sent, fileRead, now, waitLocals, service, disk>>

-----------------------------------------------------------------------------
(* wait_for_completion *)

\* start_time = time.time()
CallWait(job_id, timeout, poll_interval) ==
    /\ pc = "idle"
    /\ op' = "wait_for_completion"
    /\ args' = [job_id |-> job_id, timeout |-> timeout,
                poll_interval |-> poll_interval]
    /\ start_time' = now
    /\ pc' = "wait_check"
    /\ UNCHANGED <<client, past, video, delivered, sent, resps, fileRead, outcome, now, wakeAt, sleeps,
                   service, disk>>

BeforeDeadlineNoStart == now < args.timeout

BeforeDeadlineInclusive == now - start_time <= args.timeout

BeforeDeadlineAlways == TRUE

\* the condition of the while loop
BeforeDeadline == now - start_time < args.timeout

SleptAtOnce == TRUE

\* time.sleep has returned: the clock has reached wakeAt
Slept == now >= wakeAt

\* The loop test, on entry or when time.sleep returns: the next poll is sent,
\* or TimeoutError is raised.
WaitCheck ==
    /\ \/ pc = "wait_check"
       \/ pc = "wait_sleep" /\ Slept
    /\ IF BeforeDeadline
       THEN /\ Len(sent) < MaxPolls
            /\ sent' = Append(sent, StatusRequest(args.job_id))
            /\ pc' = "status_wait"
            /\ UNCHANGED outcome
       ELSE /\ outcome' = Raise("TimeoutError",
                    <<"Generation did not complete within ",
                      ToString(args.timeout), " seconds">>)
            /\ pc' = "done"
            /\ UNCHANGED sent
    /\ UNCHANGED <<client, past, video, delivered, op, args, resps, fileRead, now, waitLocals, service, disk>>

StatusBranchNoFail(status) ==
    IF Get(status, "status") = "completed" THEN "return" ELSE "sleep"

StatusBranchBoolean(status) ==
    IF Get(status, "status") = "completed" THEN "return" ELSE "raise"

\* what the loop body does with the value get_generation_status returned:
\* "return", "raise" or "sleep"
StatusBranch(status) ==
    IF Get(status, "status") = "completed" THEN "return"
    ELSE IF Get(status, "status") = "failed" THEN "raise"
    ELSE "sleep"

\* The loop body from the poll's response on.
WaitPollResponse(r) ==
    /\ pc = "status_wait"
    /\ op = "wait_for_completion"
    /\ resps' = Append(resps, r)
    /\ LET got == StatusResult(r)
       IN  IF got.kind = "raise"
           THEN /\ outcome' = got
                /\ pc' = "done"
                /\ UNCHANGED <<wakeAt, sleeps>>
           ELSE IF StatusBranch(got.value) = "return"
           THEN /\ outcome' = Return(got.value)
                /\ pc' = "done"
                /\ UNCHANGED <<wakeAt, sleeps>>
           ELSE IF StatusBranch(got.value) = "raise"
           THEN /\ outcome' = Raise("Exception",
                        <<"Generation failed: ", Str(Get(got.value, "error"))>>)
                /\ pc' = "done"
                /\ UNCHANGED <<wakeAt, sleeps>>
           ELSE /\ wakeAt' = now + args.poll_interval
                /\ sleeps' = sleeps + 1
                /\ pc' = "wait_sleep"
                /\ UNCHANGED outcome
    /\ UNCHANGED <<client, past, video, delivered, op, args, sent, fileRead, now, start_time, service, disk>>

-----------------------------------------------------------------------------
(* download_result *)

ChunkSize == 8192

Min(a, b) == IF a < b THEN a ELSE b

\* response.iter_content(chunk_size): the sizes the next chunk can have when
\* rest bytes of the body are still to come.  A chunk is never empty and
\* never longer than chunk_size; the stream may deliver less than chunk_size.
\* The sizes followed are the extremes: one byte, one less than chunk_size,
\* chunk_size, and all that is left.
ReadSizes(rest, chunk_size) ==
    {k \in {1, chunk_size - 1, chunk_size, rest} :
        1 <= k /\ k <= Min(rest, chunk_size)}

\* the bytes of the body still to come
Remaining == IF pc = "download_stream" THEN resps[1].content - delivered ELSE 0

WriteChunkOverwrite(file, lo, hi) == <<<<"body", lo, hi>>>>

\* f.write(chunk), chunk being the bytes lo..hi of the body: appended to the
\* file's content
WriteChunk(file, lo, hi) ==
    IF file # <<>> /\ file[Len(file)][1] = "body" /\ file[Len(file)][3] + 1 = lo
    THEN [file EXCEPT ![Len(file)] = <<"body", @[2], hi>>]
    ELSE Append(file, <<"body", lo, hi>>)

DownloadRequest(result_url) ==
    [method |-> "GET",
     url |-> <<result_url>>,
     headers |-> {},
     files |-> {},
     data |-> {},
     json |-> {},
     stream |-> TRUE]

\* requests.get(result_url, stream=True).  A url of None is rejected by
\* requests before anything is sent (MissingSchema).
CallDownload(result_url, output_path) ==
    /\ pc = "idle"
    /\ op' = "download_result"
    /\ args' = [result_url |-> result_url, output_path |-> output_path]
    /\ IF result_url = None
       THEN /\ outcome' = Raise("MissingSchema", <<"Invalid URL ", Str(result_url)>>)
            /\ pc' = "done"
            /\ UNCHANGED sent
       ELSE /\ sent' = Append(sent, DownloadRequest(result_url))
            /\ pc' = "download_wait"
            /\ UNCHANGED outcome
    /\ UNCHANGED <<client, past, video, delivered, resps, fileRead, now,
                   waitLocals, service, disk>>

DownloadResponseOpenFirst(r) ==
    /\ pc = "download_wait"
    /\ resps' = Append(resps, r)
    /\ disk' = [disk EXCEPT ![args.output_path] = <<>>]
    /\ delivered' = 0
    /\ IF r.status_code # 200
       THEN /\ outcome' = Raise("Exception",
                    <<"Download failed: ", ToString(r.status_code)>>)
            /\ pc' = "done"
       ELSE /\ pc' = "download_stream"
            /\ UNCHANGED outcome
    /\ UNCHANGED <<client, past, video, op, args, sent, fileRead, now,
                   waitLocals, service>>

\* The response's status line has arrived: the status check, then
\* open(output_path, 'wb'), which creates the file or empties it.
DownloadResponse(r) ==
    /\ pc = "download_wait"
    /\ resps' = Append(resps, r)
    /\ IF r.status_code # 200
       THEN /\ outcome' = Raise("Exception",
                    <<"Download failed: ", ToString(r.status_code)>>)
            /\ pc' = "done"
            /\ UNCHANGED <<disk, delivered>>
       ELSE /\ disk' = [disk EXCEPT ![args.output_path] = <<>>]
            /\ delivered' = 0
            /\ pc' = "download_stream"
            /\ UNCHANGED outcome
    /\ UNCHANGED <<client, past, video, op, args, sent, fileRead, now,
                   waitLocals, service>>

\* One iteration of the for loop: iter_content yields the next k bytes and
\* f.write writes them.
DownloadChunk(k) ==
    /\ pc = "download_stream"
    /\ k \in ReadSizes(Remaining, ChunkSize)
    /\ disk' = [disk EXCEPT ![args.output_path] =
                    WriteChunk(@, delivered + 1, delivered + k)]
    /\ delivered' = delivered + k
    /\ UNCHANGED <<client, past, video, pc, op, args, sent, resps, fileRead,
                   outcome, now, waitLocals, service>>

\* iter_content is exhausted: the file is closed and download_result returns.
DownloadEnd ==
    /\ pc = "download_stream"
    /\ Remaining = 0
    /\ outcome' = ReturnNone
    /\ pc' = "done"
    /\ UNCHANGED <<client, past, video, delivered, op, args, sent, resps,
                   fileRead, now, waitLocals, service, disk>>

-----------------------------------------------------------------------------
(* The environment: the wall clock and the remote job. *)

Waiting == op = "wait_for_completion" /\ pc \in {"wait_check", "status_wait", "wait_sleep"}

\* The clock advances.  It is followed during wait_for_completion, the one
\* method that reads it.
Tick ==
    /\ Waiting
    /\ now < MaxTime \/ (pc = "wait_sleep" /\ now < wakeAt)
    /\ now' = now + 1
    /\ UNCHANGED <<client, past, video, delivered, pc, op, args, sent, resps, fileRead, outcome,
                   waitLocals, service, disk>>

\* The job's status document changes on the service; a terminal status stays.
RemoteProgress(doc) ==
    /\ pc \in {"wait_check", "status_wait", "wait_sleep"}
    /\ ~Terminal(remote)
    /\ doc # remote
    /\ remote' = doc
    /\ termAt' = IF Terminal(doc) THEN now ELSE termAt
    /\ UNCHANGED <<client, past, video, delivered, pc, op, args, sent, resps, fileRead, outcome, now,
                   waitLocals, disk>>

-----------------------------------------------------------------------------
(* One call of any of the client's methods, with the clock and the job. *)

\* The arguments wait_for_completion is called with: every timeout and
\* poll_interval for the job "j1"; the job id takes no part in the timing of
\* the loop, so the job id None is followed with one timeout and interval.
WaitArgs ==
    {<<"j1", t, i>> : t \in Timeouts, i \in PollIntervals} \cup {<<None, 1, 1>>}

Next ==
    \/ \E p \in Paths, e \in BOOLEAN, t \in Titles, s \in UploadStyles, g \in TagLists :
          CallUpload(p, e, t, s, g)
    \/ \E p \in Paths, e \in BOOLEAN, q \in Prompts, s \in Styles, d \in Durations :
          CallGenerate(p, e, q, s, d)
    \/ \E r \in ErrResponses \cup {JsonResponse(d) : d \in UploadDocs} :
          UploadResponse(r)
    \/ \E r \in ErrResponses \cup {JsonResponse(d) : d \in GenerateDocs} :
          GenerateResponse(r)
    \/ \E j \in JobIds : CallStatus(j)
    \/ \E r \in StatusResponses : StatusResponse(r)
    \/ \E a \in WaitArgs : CallWait(a[1], a[2], a[3])
    \/ WaitCheck
    \/ \E r \in StatusResponses : WaitPollResponse(r)
    \/ \E u \in ResultUrls, o \in OutputPaths : CallDownload(u, o)
    \/ \E r \in DownloadResponses : DownloadResponse(r)
    \/ \E k \in ReadSizes(Remaining, ChunkSize) : DownloadChunk(k)
    \/ DownloadEnd
    \/ Tick
    \/ \E d \in StatusDocs : RemoteProgress(d)

Spec == Init /\ [][Next]_vars

-----------------------------------------------------------------------------
(* Properties of wait_for_completion. *)

IsWait == op = "wait_for_completion"

\* a poll answered 200 with a status that is neither "completed" nor "failed"
NonTerminalPoll(r) ==
    r.status_code = 200 /\ Get(r.json, "status") \notin {"completed", "failed"}

\* the k-th poll is the first one answered with the terminal status s
FirstTerminalAt(k, s) ==
    /\ resps[k].status_code = 200
    /\ Get(resps[k].json, "status") = s
    /\ \A i \in 1..(k - 1) : NonTerminalPoll(resps[i])

TimedOut == pc = "done" /\ outcome.kind = "raise" /\ outcome.type = "TimeoutError"

CeilDiv(a, b) == (a + b - 1) \div b

\* C1: when the first terminal status among the poll responses is
\* "completed", at poll k, the call has ended returning that response's
\* payload unchanged, and it has sent exactly k polls, all of them status
\* requests for the job: none after the one answered "completed".
C1_SuccessPath ==
    IsWait =>
        \A k \in 1..Len(resps) :
            FirstTerminalAt(k, "completed") =>
                /\ pc = "done"
                /\ outcome = Return(resps[k].json)
                /\ Len(resps) = k
                /\ Len(sent) = k
                /\ \A i \in 1..k : sent[i] = StatusRequest(args.job_id)

C1_Witness ==
    /\ IsWait
    /\ Len(resps) = 3
    /\ FirstTerminalAt(3, "completed")
    /\ outcome.kind = "return"
    /\ Get(outcome.value, "audio_url") = "https://cdn/u1"

\* C2: when the first terminal status among the poll responses is "failed",
\* at poll k, the call has ended raising the job-failed exception whose
\* message carries that response's error field, after exactly k polls.
C2_FailurePath ==
    IsWait =>
        \A k \in 1..Len(resps) :
            FirstTerminalAt(k, "failed") =>
                /\ pc = "done"
                /\ outcome = Raise("Exception",
                        <<"Generation failed: ", Str(Get(resps[k].json, "error"))>>)
                /\ Len(resps) = k
                /\ Len(sent) = k

C2_Witness ==
    /\ IsWait
    /\ Len(resps) = 2
    /\ FirstTerminalAt(2, "failed")
    /\ outcome.kind = "raise"
    /\ outcome.msg = <<"Generation failed: ", "e1">>

\* C3: with timeout > 0 and poll_interval > 0, as long as every poll is
\* answered 200 with a non-terminal status, the call has sent at most
\* ceil(timeout / poll_interval) + 1 polls, and if it has ended it has raised
\* TimeoutError.
C3_TimeoutPath ==
    (/\ IsWait
     /\ args.timeout > 0
     /\ args.poll_interval > 0
     /\ \A i \in 1..Len(resps) : NonTerminalPoll(resps[i]))
    => /\ Len(sent) <= CeilDiv(args.timeout, args.poll_interval) + 1
       /\ pc = "done" => outcome = Raise("TimeoutError",
                            <<"Generation did not complete within ",
                              ToString(args.timeout), " seconds">>)

C3_Witness ==
    /\ IsWait
    /\ TimedOut
    /\ args.timeout = 2
    /\ args.poll_interval = 1
    /\ Len(sent) = 2
    /\ \A i \in 1..Len(resps) : NonTerminalPoll(resps[i])

\* C4: a poll answered 200 with a status that is not exactly "completed" or
\* "failed" does not end the call: each such answer is followed by one
\* time.sleep(poll_interval), the call neither returns nor raises the
\* job-failed exception on it, and after the sleep comes the loop test (the
\* next poll, or TimeoutError).
C4_NonTerminalKeepsPolling ==
    IsWait =>
        \A k \in 1..Len(resps) :
            NonTerminalPoll(resps[k]) =>
                /\ sleeps >= k
                /\ k = Len(resps) =>
                    /\ sleeps = k
                    /\ outcome.kind = "none" \/ TimedOut
                    /\ (Len(sent) = k /\ pc # "done") =>
                            /\ pc = "wait_sleep"
                            /\ wakeAt <= now + args.poll_interval

C4_Witness ==
    /\ IsWait
    /\ Len(resps) = 3
    /\ Get(resps[1].json, "status") = "Completed"
    /\ Get(resps[2].json, "status") = None
    /\ Get(resps[3].json, "status") = "running"
    /\ resps[3].status_code = 200
    /\ pc = "wait_sleep"

\* C5 as stated, for a call with timeout > 0 and poll_interval > 0 that has
\* polled: the call does not raise TimeoutError for a job whose status became
\* terminal before the deadline, timeout seconds after the call started.
C5_NoTimeoutOnceJobTerminal ==
    (IsWait /\ TimedOut /\ args.timeout > 0 /\ args.poll_interval > 0
        /\ Len(resps) > 0)
    => ~(termAt # -1 /\ termAt < start_time + args.timeout)

\* C5, amended: TimeoutError is raised only by a loop test that finds the
\* elapsed time at or past timeout, and only when every poll of the call was
\* answered 200 with a non-terminal status; if the job is terminal by then, it
\* became so no earlier than the last poll was answered.
C5_TimeoutOnlyUnobserved ==
    (IsWait /\ TimedOut)
    => /\ now - start_time >= args.timeout
       /\ \A i \in 1..Len(resps) : NonTerminalPoll(resps[i])
       /\ Len(sent) = Len(resps)
       /\ (termAt # -1 /\ Len(resps) > 0) => termAt >= wakeAt - args.poll_interval

C5_Witness ==
    /\ IsWait
    /\ TimedOut
    /\ args.timeout > 0
    /\ Len(resps) > 0
    /\ Terminal(remote)
    /\ termAt < start_time + args.timeout

-----------------------------------------------------------------------------
(* Properties of the request/response methods. *)

LastResp == resps[Len(resps)]

\* the exception message has the part x
Carries(x) == \E i \in 1..Len(outcome.msg) : outcome.msg[i] = x

\* C6 as stated: whenever one of upload_midi, generate_from_midi,
\* get_generation_status and download_result is answered with a status other
\* than 200, it raises an exception that carries both the status code and the
\* response body, and returns nothing.
C6_RemoteErrorCarriesCodeAndBody ==
    (/\ op \in {"upload_midi", "generate_from_midi", "get_generation_status",
                "download_result"}
     /\ Len(resps) > 0
     /\ LastResp.status_code # 200)
    => /\ pc = "done"
       /\ outcome.kind = "raise"
       /\ outcome.type = "Exception"
       /\ Carries(ToString(LastResp.status_code))
       /\ Carries(LastResp.text)

\* The paths of Paths whose extension is .mid or .midi in some letter case.
MidiNamed == {
    <<"a", ".", "m", "i", "d">>,
    <<"a", ".", "M", "I", "D">>,
    <<"a", ".", "M", "i", "d", "i">> }

CallsUpload == op \in {"upload_midi", "generate_from_midi"}

\* C7: a path whose extension is not .mid or .midi, in any letter case, makes
\* upload_midi raise FileNotFoundError or ValueError (ValueError when the file
\* exists) with no request sent and the file not read; an existing file named
\* .mid, .MID or .Midi passes the check: it is read and the request is sent.
C7_WrongExtensionRejected ==
    CallsUpload =>
        /\ args.midi_path \notin MidiNamed =>
            /\ pc = "done"
            /\ outcome.kind = "raise"
            /\ outcome.type = IF args.exists THEN "ValueError" ELSE "FileNotFoundError"
            /\ sent = <<>>
            /\ ~fileRead
        /\ (args.midi_path \in MidiNamed /\ args.exists) =>
            /\ fileRead
            /\ Len(sent) >= 1
            /\ sent[1].files = {<<"midi_file",
                    <<PathName(args.midi_path), FileBytes(args.midi_path), "audio/midi">>>>}

C7_Witness ==
    /\ op = "upload_midi"
    /\ args.exists
    /\ args.midi_path = <<"a", ".", "m", "p", "3">>
    /\ pc = "done"
    /\ outcome.kind = "raise"
    /\ outcome.type = "ValueError"

\* C8: a path that does not exist makes upload_midi, and generate_from_midi
\* through it, raise FileNotFoundError with no request sent and no file read,
\* whatever the path's extension.
C8_MissingFileRejected ==
    (CallsUpload /\ ~args.exists) =>
        /\ pc = "done"
        /\ outcome = Raise("FileNotFoundError",
                           <<"MIDI file not found: ", args.midi_path>>)
        /\ sent = <<>>
        /\ ~fileRead

C8_Witness ==
    /\ op = "generate_from_midi"
    /\ ~args.exists
    /\ args.midi_path = <<"a", ".", "m", "p", "3">>
    /\ outcome.kind = "raise"
    /\ outcome.type = "FileNotFoundError"

UploadUrl == <<base_url, "/uploads/midi">>
GenerateUrl == <<base_url, "/generate">>

\* C9: in a generate_from_midi call the first request is the upload POST; the
\* POST to {base}/generate is the second request, sent once the upload has
\* been answered 200, with the midi_id of that answer; when the local checks
\* or the upload fail, no request to {base}/generate is sent.
C9_GenerateAfterUpload ==
    op = "generate_from_midi" =>
        /\ Len(sent) >= 1 => (sent[1].url = UploadUrl /\ sent[1].method = "POST")
        /\ \A i \in 1..Len(sent) :
              sent[i].url = GenerateUrl =>
                  /\ i = 2
                  /\ sent[i].method = "POST"
                  /\ Len(resps) >= 1
                  /\ resps[1].status_code = 200
                  /\ Get(sent[i].json, "midi_id") = Get(resps[1].json, "midi_id")
        /\ (Len(resps) >= 1 /\ resps[1].status_code = 200) =>
              (Len(sent) = 2 /\ sent[2].url = GenerateUrl)
        /\ (Len(resps) >= 1 /\ resps[1].status_code # 200) =>
              (pc = "done" /\ Len(sent) = 1)

C9_Witness ==
    /\ op = "generate_from_midi"
    /\ Len(sent) = 2
    /\ Len(resps) = 2
    /\ Get(sent[2].json, "midi_id") = "m2"
    /\ pc = "done"

\* the requests of this call sent to url
SentTo(url) == {i \in 1..Len(sent) : sent[i].url = url}

\* C10: no retry.  A call of upload_midi sends at most one request, a call of
\* get_generation_status exactly one GET, a call of generate_from_midi at most
\* one upload POST and one generate POST; any answer other than 200 is the
\* last exchange of the call, which ends raising; in wait_for_completion a
\* poll answered other than 200 ends the wait with that poll's exception, with
\* no sleep after it and no further poll.
C10_NoRetry ==
    /\ op = "upload_midi" => Len(sent) <= 1
    /\ op = "get_generation_status" =>
          (Len(sent) = 1 /\ sent[1] = StatusRequest(args.job_id))
    /\ op = "generate_from_midi" =>
          (Cardinality(SentTo(UploadUrl)) <= 1 /\ Cardinality(SentTo(GenerateUrl)) <= 1)
    /\ \A k \in 1..Len(resps) :
          resps[k].status_code # 200 =>
              /\ pc = "done"
              /\ outcome.kind = "raise"
              /\ Len(resps) = k
              /\ Len(sent) = k
              /\ IsWait =>
                    /\ outcome = Raise("Exception",
                            <<"Status check failed: ", ToString(resps[k].status_code),
                              " - ", resps[k].text>>)
                    /\ sleeps = k - 1

C10_Witness ==
    /\ IsWait
    /\ Len(resps) = 2
    /\ resps[2].status_code = 404
    /\ pc = "done"
    /\ sleeps = 1

-----------------------------------------------------------------------------
(* Properties of generate_from_midi and upload_midi, continued. *)

\* the upload was answered 200 with a document that has no "midi_id"
UploadedWithoutId ==
    /\ op = "generate_from_midi"
    /\ Len(resps) >= 1
    /\ resps[1].status_code = 200
    /\ \A p \in resps[1].json : p[1] # "midi_id"

\* C12: when the upload is answered 200 with a document that has no midi_id,
\* generate_from_midi does not fail locally: it sends the generate POST, whose
\* JSON body has "midi_id" with the value null, and the call ends only with
\* the answer to that request, returning its document on a 200 and raising
\* "Generation failed" with its code and text otherwise.
C12_MissingMidiIdStillGenerates ==
    UploadedWithoutId =>
        /\ Len(sent) = 2
        /\ sent[2].url = GenerateUrl
        /\ sent[2].method = "POST"
        /\ <<"midi_id", None>> \in sent[2].json
        /\ Len(resps) <= 2
        /\ Len(resps) = 1 => (pc = "generate_wait" /\ outcome = NoOutcome)
        /\ Len(resps) = 2 =>
              /\ pc = "done"
              /\ outcome = IF resps[2].status_code = 200
                           THEN Return(resps[2].json)
                           ELSE Raise("Exception",
                                  <<"Generation failed: ",
                                    ToString(resps[2].status_code), " - ",
                                    resps[2].text>>)

C12_Witness ==
    /\ UploadedWithoutId
    /\ Len(resps) = 2
    /\ resps[2].status_code = 200
    /\ outcome = Return({<<"job_id", "j1">>})

\* the form fields of the upload request named key
Fields(key) == {p \in sent[1].data : p[1] = key}

\* an upload_midi call that has sent its request
UploadSent == op = "upload_midi" /\ Len(sent) >= 1

\* C13 as stated: whenever a tag list is provided the upload request has
\* exactly one "tags" form field, holding the JSON text of the whole list;
\* "title" and "style" are present exactly when provided; an argument that is
\* not provided has no field.
C13_FieldsExactlyWhenProvided ==
    UploadSent =>
        /\ ~args.tags.isNone => Fields("tags") = {<<"tags", JsonDumps(args.tags)>>}
        /\ args.tags.isNone => Fields("tags") = {}
        /\ args.title # None => Fields("title") = {<<"title", args.title>>}
        /\ args.title = None => Fields("title") = {}
        /\ args.style # None => Fields("style") = {<<"style", args.style>>}
        /\ args.style = None => Fields("style") = {}

\* C13, amended: a tag list that is provided and not empty gives exactly one
\* "tags" form field, holding the JSON text of the whole list; a title or
\* style that is provided and not the empty string gives one field with that
\* value; an argument that is None, the empty string or the empty list has
\* no field; the request has no other form field, and the upload made by
\* generate_from_midi has none at all.
C13_FieldsWhenNonEmpty ==
    /\ UploadSent =>
          /\ TruthyList(args.tags) =>
                Fields("tags") = {<<"tags", JsonDumps(args.tags)>>}
          /\ ~TruthyList(args.tags) => Fields("tags") = {}
          /\ Truthy(args.title) => Fields("title") = {<<"title", args.title>>}
          /\ ~Truthy(args.title) => Fields("title") = {}
          /\ Truthy(args.style) => Fields("style") = {<<"style", args.style>>}
          /\ ~Truthy(args.style) => Fields("style") = {}
          /\ sent[1].data = Fields("tags") \cup Fields("title") \cup Fields("style")
    /\ (op = "generate_from_midi" /\ Len(sent) >= 1) => sent[1].data = {}

C13_Witness ==
    /\ UploadSent
    /\ args.tags = SomeList(<<"a", "b">>)
    /\ args.title = "T"
    /\ args.style = None
    /\ sent[1].data = {<<"title", "T">>,
                       <<"tags", <<"[", "\"", "a", "\"", ", ", "\"", "b", "\"", "]">>>>}

-----------------------------------------------------------------------------
(* download_result with bodies around the chunk size. *)

\* body lengths below, at and above chunk_size, multiples of it and not
BodySizes == {0, 1, ChunkSize - 1, ChunkSize, ChunkSize + 1, 2 * ChunkSize,
              2 * ChunkSize + 1}

\* download_result does not read the clock
DownloadInit == Init /\ now = 0

DownloadNext ==
    \/ \E u \in ResultUrls, o \in OutputPaths : CallDownload(u, o)
    \/ \E r \in ErrResponses \cup {BodyResponse(n) : n \in BodySizes} :
          DownloadResponse(r)
    \/ \E k \in ReadSizes(Remaining, ChunkSize) : DownloadChunk(k)
    \/ DownloadEnd

DownloadSpec == DownloadInit /\ [][DownloadNext]_vars

\* the content of a file that holds the first n bytes of the body
BodyFile(n) == IF n = 0 THEN <<>> ELSE <<<<"body", 1, n>>>>

\* a download_result call whose request was answered 200
Downloading ==
    op = "download_result" /\ Len(resps) = 1 /\ resps[1].status_code = 200

\* C14: once download_result was answered 200, the output file holds, at
\* every moment of the streaming, the bytes of the body delivered so far, in
\* order, none dropped or repeated, and nothing of what it held before;
\* when the call has returned it holds the whole body, for bodies shorter
\* than, equal to, a multiple of and not a multiple of the chunk size and for
\* every way the stream cuts the body into chunks; no other file is touched.
C14_DownloadRoundTrip ==
    Downloading =>
        /\ disk[args.output_path] = BodyFile(delivered)
        /\ delivered <= resps[1].content
        /\ pc \in {"download_stream", "done"}
        /\ pc = "done" =>
              /\ outcome = ReturnNone
              /\ disk[args.output_path] = BodyFile(resps[1].content)
        /\ \A o \in OutputPaths \ {args.output_path} : disk[o] = InitDisk[o]

C14_Witness ==
    /\ Downloading
    /\ pc = "done"
    /\ args.output_path = "old.mp3"
    /\ resps[1].content = 2 * ChunkSize + 1
    /\ disk["old.mp3"] = <<<<"body", 1, 2 * ChunkSize + 1>>>>

\* C18: a download_result call answered with a status other than 200 leaves
\* every output path as it was before the call: the path that did not exist
\* is not created, the file that existed keeps its content; the same holds
\* while the request is unanswered and when the url is refused.
C18_ErrorLeavesFiles ==
    (op = "download_result" /\ ~Downloading) =>
        /\ disk = InitDisk
        /\ Len(resps) = 1 =>
              /\ pc = "done"
              /\ outcome = Raise("Exception",
                      <<"Download failed: ", ToString(resps[1].status_code)>>)

C18_Witness ==
    /\ op = "download_result"
    /\ args.output_path = "old.mp3"
    /\ Len(resps) = 1
    /\ resps[1].status_code = 404
    /\ pc = "done"
    /\ disk["old.mp3"] = OldBytes

-----------------------------------------------------------------------------
(* One client used for one call after another. *)

\* The call has ended and its caller goes on: the next call starts from the
\* same client and the same files; what belonged to the call is gone.  The
\* clock is read anew, since only differences of its readings are used.
NextCall ==
    /\ pc = "done"
    /\ pc' = "idle"
    /\ op' = "none"
    /\ args' = [none |-> TRUE]
    /\ sent' = <<>>
    /\ resps' = <<>>
    /\ fileRead' = FALSE
    /\ outcome' = NoOutcome
    /\ now' \in Epochs
    /\ start_time' = 0
    /\ wakeAt' = 0
    /\ sleeps' = 0
    /\ remote' = Running
    /\ termAt' = -1
    /\ delivered' = 0
    /\ UNCHANGED <<client, past, video, disk>>

CallsNext ==
    \/ \E p \in Paths, e \in BOOLEAN, t \in Titles, s \in UploadStyles, g \in TagLists :
          CallUpload(p, e, t, s, g)
    \/ \E p \in Paths, e \in BOOLEAN, q \in Prompts, s \in Styles, d \in Durations :
          CallGenerate(p, e, q, s, d)
    \/ \E r \in ErrResponses \cup {JsonResponse(d) : d \in UploadDocs} :
          UploadResponse(r)
    \/ \E r \in ErrResponses \cup {JsonResponse(d) : d \in GenerateDocs} :
          GenerateResponse(r)
    \/ \E j \in JobIds : CallStatus(j)
    \/ \E r \in StatusResponses : StatusResponse(r)
    \/ \E j \in JobIds : CallWait(j, 1, 1)
    \/ WaitCheck
    \/ \E r \in StatusResponses : WaitPollResponse(r)
    \/ \E u \in ResultUrls, o \in OutputPaths : CallDownload(u, o)
    \/ \E r \in DownloadResponses : DownloadResponse(r)
    \/ \E k \in ReadSizes(Remaining, ChunkSize) : DownloadChunk(k)
    \/ DownloadEnd
    \/ Tick
    \/ \E d \in StatusDocs : RemoteProgress(d)
    \/ NextCall

CallsSpec == Init /\ [][CallsNext]_vars

\* the header set built by __init__ for the token
JsonHeaders == {<<"Authorization", <<"Bearer ", api_key>>>>,
                <<"Content-Type", "application/json">>}

\* the keys of a header set
HeaderNames(h) == {p[1] : p \in h}

IsUploadRequest(q) == Len(q.url) = 2 /\ q.url[2] = "/uploads/midi"
IsGenerateRequest(q) == Len(q.url) = 2 /\ q.url[2] = "/generate"
IsStatusRequest(q) == Len(q.url) = 3 /\ q.url[2] = "/generations/"
IsDownloadRequest(q) == Len(q.url) = 1

\* C15: at every moment of every sequence of calls on one client, each
\* upload request has the bearer Authorization header of the client's token
\* and no Content-Type header, each generate and each status request has
\* that Authorization header and Content-Type application/json, each download
\* request has no header at all; self.headers is the header set built at
\* construction, and the token and the base url are the ones given then,
\* every request but the download going to a url under that base url.
C15_HeaderDiscipline ==
    /\ api_key \in ApiKeys
    /\ base_url \in BaseUrls
    /\ headers = JsonHeaders
    /\ \A i \in 1..Len(sent) :
          LET q == sent[i]
          IN  /\ IsUploadRequest(q) \/ IsGenerateRequest(q)
                 \/ IsStatusRequest(q) \/ IsDownloadRequest(q)
              /\ IsUploadRequest(q) =>
                    /\ q.headers = {<<"Authorization", <<"Bearer ", api_key>>>>}
                    /\ "Content-Type" \notin HeaderNames(q.headers)
              /\ (IsGenerateRequest(q) \/ IsStatusRequest(q)) =>
                    q.headers = JsonHeaders
              /\ IsDownloadRequest(q) => q.headers = {}
              /\ ~IsDownloadRequest(q) => q.url[1] = base_url

\* a generate_from_midi call made on a client that has downloaded to both paths
C15_Witness ==
    /\ op = "generate_from_midi"
    /\ Len(sent) = 2
    /\ sent[1].headers = {<<"Authorization", <<"Bearer ", "k1">>>>}
    /\ sent[2].headers = {<<"Authorization", <<"Bearer ", "k1">>>>,
                          <<"Content-Type", "application/json">>}
    /\ disk["output.mp3"] = BodyFile(3)
    /\ disk["old.mp3"] = <<>>

-----------------------------------------------------------------------------
(* Properties of wait_for_completion, continued. *)

\* wait_for_completion alone, for one job: the job id plays no part in the
\* timing of the loop
WaitNext ==
    \/ \E t \in Timeouts, i \in PollIntervals : CallWait("j1", t, i)
    \/ WaitCheck
    \/ \E r \in StatusResponses : WaitPollResponse(r)
    \/ Tick
    \/ \E d \in StatusDocs : RemoteProgress(d)

WaitSpec == Init /\ [][WaitNext]_vars

\* the time that has passed since wait_for_completion was entered
Elapsed == now - start_time

\* a step of wait_for_completion that sends a request
PollStarts == IsWait /\ sent' # sent

\* a step of wait_for_completion that raises TimeoutError
TimeoutRaised == IsWait /\ ~TimedOut /\ TimedOut'

\* the last response is a 200 with the terminal status s
LastIsTerminal(s) ==
    /\ Len(resps) >= 1
    /\ LastResp.status_code = 200
    /\ Get(LastResp.json, "status") = s

\* C16: the deadline is tested before each poll and nowhere else.  Every
\* poll is sent in a step taken while the elapsed time is strictly less than
\* timeout, and is one status request for the job; TimeoutError is raised
\* only at such a test, when no poll is unanswered and the elapsed time is
\* at least timeout; with timeout <= 0 no poll is ever sent and the only end
\* is TimeoutError; a "completed" or "failed" answer is honoured whenever it
\* arrives, also when the elapsed time has passed timeout by then.
C16_DeadlineTestedBeforeEachPoll ==
    /\ [][PollStarts =>
            /\ Elapsed < args.timeout
            /\ sent' = Append(sent, StatusRequest(args.job_id))
            /\ Len(sent) = Len(resps)]_vars
    /\ [][TimeoutRaised =>
            /\ Elapsed >= args.timeout
            /\ Len(sent) = Len(resps)
            /\ UNCHANGED <<sent, resps>>]_vars
    /\ []((IsWait /\ args.timeout <= 0) =>
            /\ sent = <<>>
            /\ pc = "done" => TimedOut)
    /\ []((IsWait /\ LastIsTerminal("completed")) =>
            (pc = "done" /\ outcome = Return(LastResp.json)))
    /\ []((IsWait /\ LastIsTerminal("failed")) =>
            (pc = "done" /\ outcome.kind = "raise" /\ outcome.type = "Exception"))

\* a "completed" answer that arrived after the deadline and was returned
C16_Witness ==
    /\ IsWait
    /\ args.timeout > 0
    /\ LastIsTerminal("completed")
    /\ Elapsed > args.timeout
    /\ pc = "done"
    /\ outcome = Return(LastResp.json)

-----------------------------------------------------------------------------
(* wait_for_completion when every poll is answered and the clock advances. *)

\* the call is followed from the clock reading 0 on
WaitFairInit == Init /\ now = 0

\* The interpreter runs the loop test when it is reached, requests.get
\* returns, and the clock does not stand still.
WaitFairSpec ==
    /\ WaitFairInit
    /\ [][WaitNext]_vars
    /\ WF_vars(WaitCheck)
    /\ WF_vars(\E r \in StatusResponses : WaitPollResponse(r))
    /\ WF_vars(Tick)

\* the four ways wait_for_completion ends
CompletedOutcome ==
    LastIsTerminal("completed") /\ outcome = Return(LastResp.json)

JobFailedOutcome ==
    /\ LastIsTerminal("failed")
    /\ outcome = Raise("Exception",
            <<"Generation failed: ", Str(Get(LastResp.json, "error"))>>)

RemoteErrorOutcome ==
    /\ Len(resps) >= 1
    /\ LastResp.status_code # 200
    /\ outcome = Raise("Exception",
            <<"Status check failed: ", ToString(LastResp.status_code), " - ",
              LastResp.text>>)

TimeoutOutcome ==
    outcome = Raise("TimeoutError",
        <<"Generation did not complete within ", ToString(args.timeout), " seconds">>)

\* how many of the four hold
OutcomeCount ==
    Cardinality({i \in 1..4 :
        \/ i = 1 /\ CompletedOutcome
        \/ i = 2 /\ JobFailedOutcome
        \/ i = 3 /\ RemoteErrorOutcome
        \/ i = 4 /\ TimeoutOutcome})

\* the polls answered 200 with a non-terminal status
NonTerminalPolls == {k \in 1..Len(resps) : NonTerminalPoll(resps[k])}

\* one time.sleep(poll_interval) after each non-terminal answer and no other
SleepAccount ==
    IsWait =>
        /\ sleeps = Cardinality(NonTerminalPolls)
        /\ pc = "wait_check" => (sent = <<>> /\ sleeps = 0)
        /\ pc = "status_wait" => Len(sent) = sleeps + 1
        /\ pc = "wait_sleep" => (Len(sent) = sleeps /\ sleeps >= 1)
        /\ pc = "done" =>
              /\ OutcomeCount = 1
              /\ TimeoutOutcome => Len(sent) = sleeps
              /\ ~TimeoutOutcome => Len(sent) = sleeps + 1

\* C17: a wait_for_completion call always ends, for every timeout, every
\* poll_interval >= 0 and every sequence of answers, when each poll is
\* answered and the clock advances; it ends in exactly one of four ways: the
\* completed payload returned, JobFailed, RemoteError or Timeout; it sleeps
\* once, for poll_interval, after each non-terminal answer and at no other
\* moment: not before the first poll, not after a terminal or failed poll,
\* and the poll that follows a sleep is not sent before the sleep is over.
C17_WaitTerminates ==
    /\ IsWait ~> (pc = "done")
    /\ []SleepAccount
    /\ [][sleeps' # sleeps =>
            /\ sleeps' = sleeps + 1
            /\ wakeAt' = now + args.poll_interval
            /\ NonTerminalPoll(resps'[Len(resps')])]_vars
    /\ [][(PollStarts /\ sleeps > 0) => now >= wakeAt]_vars
    /\ [][pc = "done" => UNCHANGED <<pc, outcome, sent, sleeps>>]_vars

\* a call that ended by TimeoutError after two polls and two sleeps
C17_Witness ==
    /\ IsWait
    /\ pc = "done"
    /\ TimeoutOutcome
    /\ args.poll_interval = 1
    /\ Len(sent) = 2
    /\ sleeps = 2

-----------------------------------------------------------------------------
(* The example flow of the __main__ block: generate_from_midi, then        *)
(* wait_for_completion, then download_result, inside one try block.         *)

MainApiKey == "your_suno_api_key_here"

MainPath == <<"p", "a", "t", "h", "/", "t", "o", "/", "y", "o", "u", "r", "/",
              "f", "i", "l", "e", ".", "m", "i", "d">>

MainPrompt == "Energetic electronic dance music with heavy bass"

\* the defaults of wait_for_completion's timeout and poll_interval
DefaultTimeout == 300
DefaultPollInterval == 5

\* the status documents the service may hold in this flow: those of
\* StatusDocs and a completed one without audio_url
MainStatusDocs == StatusDocs \cup {{<<"status", "completed">>}}

\* uploader = SunoMIDIUploader(api_key)
MainInit ==
    /\ api_key = MainApiKey
    /\ base_url \in BaseUrls
    /\ headers = {<<"Authorization", <<"Bearer ", api_key>>>>,
                  <<"Content-Type", "application/json">>}
    /\ pc = "idle"
    /\ op = "none"
    /\ args = [none |-> TRUE]
    /\ sent = <<>>
    /\ resps = <<>>
    /\ fileRead = FALSE
    /\ outcome = NoOutcome
    /\ now = 0
    /\ start_time = 0
    /\ wakeAt = 0
    /\ sleeps = 0
    /\ remote = Running
    /\ termAt = -1
    /\ disk = InitDisk
    /\ delivered = 0
    /\ past = <<>>
    /\ NoVideo

\* result = uploader.generate_from_midi(...)
MainGenerate ==
    /\ past = <<>>
    /\ \E e \in BOOLEAN : CallGenerate(MainPath, e, MainPrompt, "edm", 180)

\* The call returns or raises into the try block: its requests, responses
\* and outcome are on record from here on, and the call's own state is gone.
\* After an exception nothing of the try block runs any more.
MainReturn ==
    /\ pc = "done"
    /\ past' = Append(past, [op |-> op, sent |-> sent, resps |-> resps,
                             outcome |-> outcome])
    /\ pc' = "idle"
    /\ op' = "none"
    /\ args' = [none |-> TRUE]
    /\ sent' = <<>>
    /\ resps' = <<>>
    /\ fileRead' = FALSE
    /\ outcome' = NoOutcome
    /\ start_time' = 0
    /\ wakeAt' = 0
    /\ sleeps' = 0
    /\ delivered' = 0
    /\ UNCHANGED <<client, video, now, service, disk>>

\* the i-th call of the flow returned a value
Returned(i) == Len(past) = i /\ past[i].outcome.kind = "return"

\* job_id = result.get('job_id'); final_result = uploader.wait_for_completion(job_id)
MainWait ==
    /\ Returned(1)
    /\ CallWait(Get(past[1].outcome.value, "job_id"), DefaultTimeout,
                DefaultPollInterval)

MainDownloadAnyway ==
    /\ Len(past) = 2
    /\ CallDownload("https://cdn/u1", "output.mp3")

\* audio_url = final_result.get('audio_url');
\* uploader.download_result(audio_url, "output.mp3")
MainDownload ==
    /\ Returned(2)
    /\ CallDownload(Get(past[2].outcome.value, "audio_url"), "output.mp3")

\* The clock during the wait: it moves on by poll_interval while time.sleep
\* runs, or by a whole timeout at any moment before the deadline.
Elapse(d) ==
    /\ Waiting
    /\ \/ pc = "wait_sleep" /\ now < wakeAt
       \/ d = args.timeout /\ BeforeDeadline
    /\ now' = now + d
    /\ UNCHANGED <<client, past, video, delivered, pc, op, args, sent, resps,
                   fileRead, outcome, waitLocals, service, disk>>

MainNext ==
    \/ MainGenerate
    \/ \E r \in ErrResponses \cup {JsonResponse(d) : d \in UploadDocs} :
          UploadResponse(r)
    \/ \E r \in ErrResponses \cup {JsonResponse(d) : d \in GenerateDocs} :
          GenerateResponse(r)
    \/ MainReturn
    \/ MainWait
    \/ WaitCheck
    \/ \E r \in StatusResponses : WaitPollResponse(r)
    \/ \E d \in {DefaultPollInterval, DefaultTimeout} : Elapse(d)
    \/ \E d \in MainStatusDocs : RemoteProgress(d)
    \/ MainDownload
    \/ \E r \in DownloadResponses : DownloadResponse(r)
    \/ \E k \in ReadSizes(Remaining, ChunkSize) : DownloadChunk(k)
    \/ DownloadEnd

MainSpec == MainInit /\ [][MainNext]_vars

\* the flow has sent the download request
DownloadRequested ==
    \/ op = "download_result" /\ sent # <<>>
    \/ \E i \in 1..Len(past) : past[i].op = "download_result" /\ past[i].sent # <<>>

\* the output file was created or written
OutputWritten == disk["output.mp3"] # NoFile

\* the wait_for_completion call of the flow got, for the job the generate
\* call returned, a 200 answer with the status "completed"
CompletedPolled ==
    /\ Len(past) >= 2
    /\ past[1].op = "generate_from_midi"
    /\ past[1].outcome.kind = "return"
    /\ past[2].op = "wait_for_completion"
    /\ \E k \in 1..Len(past[2].resps) :
          /\ past[2].resps[k].status_code = 200
          /\ Get(past[2].resps[k].json, "status") = "completed"
          /\ past[2].sent[k] = StatusRequest(Get(past[1].outcome.value, "job_id"))

\* a call of the flow before the download raised
FailedEarlier ==
    \E i \in 1..Len(past) :
        past[i].op # "download_result" /\ past[i].outcome.kind = "raise"

\* C11: in the example flow the download request is sent, and the output
\* file created or written, only after a poll of the job returned by the
\* generate call was answered "completed"; the calls are made in the order
\* generate_from_midi, wait_for_completion, download_result, each at most
\* once; when generate_from_midi or wait_for_completion raises (a local check,
\* a non-200 answer, a failed job, a timeout) the flow is over: no download
\* request is sent and no file is written.
C11_DownloadOnlyAfterCompleted ==
    /\ (DownloadRequested \/ OutputWritten) => CompletedPolled
    /\ Len(past) <= 3
    /\ \A i \in 1..Len(past) :
          past[i].op = <<"generate_from_midi", "wait_for_completion",
                         "download_result">>[i]
    /\ FailedEarlier =>
          /\ ~DownloadRequested
          /\ ~OutputWritten
          /\ pc = "idle"
          /\ past[Len(past)].outcome.kind = "raise"

\* the whole flow has run and the output file holds the body
C11_Witness ==
    /\ Len(past) = 3
    /\ CompletedPolled
    /\ past[3].outcome = ReturnNone
    /\ disk["output.mp3"] = BodyFile(3)

-----------------------------------------------------------------------------
(* makelongvideo.py: create_looped_video.                                   *)
(* The image folder is taken to exist and its images to be readable; the    *)
(* duration settings are positive.                                          *)

TARGET_DURATION_SECONDS == 3600
IMAGE_DURATION_SECONDS == 15

\* The two settings as the file has them, and as a user may set them: a
\* target that is not a multiple of the image duration, one shorter than a
\* single image, an image duration that does not divide the hour.
VideoConfigs == {
    [target |-> TARGET_DURATION_SECONDS, image |-> IMAGE_DURATION_SECONDS],
    [target |-> 50, image |-> IMAGE_DURATION_SECONDS],
    [target |-> 10, image |-> IMAGE_DURATION_SECONDS],
    [target |-> TARGET_DURATION_SECONDS, image |-> 7] }

\* the path of the i-th image file of the folder
ImagePath(i) == <<"IMAGE_DIR", i>>

VideoInit ==
    /\ api_key \in ApiKeys
    /\ base_url \in BaseUrls
    /\ headers = {<<"Authorization", <<"Bearer ", api_key>>>>,
                  <<"Content-Type", "application/json">>}
    /\ pc = "idle"
    /\ op = "none"
    /\ args = [none |-> TRUE]
    /\ sent = <<>>
    /\ resps = <<>>
    /\ fileRead = FALSE
    /\ outcome = NoOutcome
    /\ now = 0
    /\ start_time = 0
    /\ wakeAt = 0
    /\ sleeps = 0
    /\ remote = Running
    /\ termAt = -1
    /\ disk = InitDisk
    /\ delivered = 0
    /\ past = <<>>
    /\ config \in VideoConfigs
    /\ image_files = <<>>
    /\ video_clips = <<>>
    /\ current_time = 0
    /\ img_index = 0
    /\ vpc = "start"
    /\ video_file = <<>>

suno == <<api_key, base_url, headers, pc, op, args, sent, resps, fileRead,
          outcome, now, start_time, wakeAt, sleeps, remote, termAt, disk,
          delivered, past>>

\* The listing of the image folder, the return when it has no image, and
\* video_clips = [], current_time = 0.
ListImages(n) ==
    /\ vpc = "start"
    /\ image_files' = [i \in 1..n |-> ImagePath(i)]
    /\ vpc' = IF n = 0 THEN "returned" ELSE "while"
    /\ video_clips' = <<>>
    /\ current_time' = 0
    /\ UNCHANGED <<suno, config, img_index, video_file>>

\* while current_time < TARGET_DURATION_SECONDS: the for loop is entered
\* anew, or the loop is left
WhileTest ==
    /\ vpc = "while"
    /\ IF current_time < config.target
       THEN vpc' = "for" /\ img_index' = 1
       ELSE vpc' = "concat" /\ UNCHANGED img_index
    /\ UNCHANGED <<suno, config, image_files, video_clips, current_time, video_file>>

BreakNowNever == FALSE

\* if current_time >= TARGET_DURATION_SECONDS: break
BreakNow == current_time >= config.target

\* One step of for img_path in image_files: the list is exhausted, or the
\* break is taken, or a clip of the image is appended and the time added.
ForStep ==
    /\ vpc = "for"
    /\ IF img_index > Len(image_files) \/ BreakNow
       THEN /\ vpc' = "while"
            /\ UNCHANGED <<video_clips, current_time, img_index>>
       ELSE /\ video_clips' = Append(video_clips,
                    [img |-> image_files[img_index], duration |-> config.image])
            /\ current_time' = current_time + config.image
            /\ img_index' = img_index + 1
            /\ UNCHANGED vpc
    /\ UNCHANGED <<suno, config, image_files, video_file>>

\* concatenate_videoclips(video_clips).set_duration(TARGET_DURATION_SECONDS),
\* the BGM when its file exists, and write_videofile
WriteVideo(bgm) ==
    /\ vpc = "concat"
    /\ video_file' = Append(video_file,
            [name |-> <<"Lullaby_Loop_", config.target \div 60, "min.mp4">>,
             clips |-> video_clips,
             duration |-> config.target,
             audio |-> bgm])
    /\ vpc' = "written"
    /\ UNCHANGED <<suno, config, image_files, video_clips, current_time, img_index>>

VideoNext ==
    \/ \E n \in 0..MaxImages : ListImages(n)
    \/ WhileTest
    \/ ForStep
    \/ \E bgm \in BOOLEAN : WriteVideo(bgm)

\* the interpreter goes on executing the function
VideoSpec == VideoInit /\ [][VideoNext]_vars /\ WF_vars(VideoNext)

\* ceil(TARGET_DURATION_SECONDS / IMAGE_DURATION_SECONDS)
ClipsNeeded == CeilDiv(config.target, config.image)

\* the clips are of the images in order, starting over after the last image
ClipsCycle ==
    \A i \in 1..Len(video_clips) :
        video_clips[i] = [img |-> image_files[((i - 1) % Len(image_files)) + 1],
                          duration |-> config.image]

LoopAccount ==
    /\ vpc \in {"while", "for", "concat", "written"} =>
          /\ image_files # <<>>
          /\ Len(video_clips) <= ClipsNeeded
          /\ current_time = config.image * Len(video_clips)
          /\ ClipsCycle
    /\ vpc \in {"concat", "written"} =>
          /\ Len(video_clips) = ClipsNeeded
          /\ current_time >= config.target
          /\ current_time - config.image < config.target
    /\ vpc = "written" =>
          /\ Len(video_file) = 1
          /\ video_file[1].clips = video_clips
    /\ vpc = "returned" =>
          /\ image_files = <<>>
          /\ video_clips = <<>>
          /\ video_file = <<>>
    /\ vpc # "written" => video_file = <<>>

\* C19: with at least one image and positive durations the loop of
\* create_looped_video ends; when it has ended exactly
\* ceil(TARGET_DURATION_SECONDS / IMAGE_DURATION_SECONDS) clips were appended,
\* the i-th of the image at position ((i - 1) mod the number of images) + 1 of
\* the list, and the accumulated time is the smallest multiple of
\* IMAGE_DURATION_SECONDS that is at least TARGET_DURATION_SECONDS; with no
\* image the function returns with no clip built and no video file written.
C19_LoopedClips ==
    /\ []LoopAccount
    /\ <>(vpc \in {"written", "returned"})

\* the hour of video from two images: 240 clips, the last of the second image
C19_Witness ==
    /\ vpc = "written"
    /\ config = [target |-> 3600, image |-> 15]
    /\ Len(image_files) = 2
    /\ Len(video_clips) = 240
    /\ video_clips[240].img = ImagePath(2)
    /\ current_time = 3600

====
